---- MODULE Spec2Model ----
(***************************************************************************)
(* Media Credibility Hub (app.py): a page script that is re-executed from  *)
(* top to bottom on every interaction.  Two helper routines score an       *)
(* uploaded image and a pasted URL; the page body prints coloured banners  *)
(* chosen by score thresholds.                                             *)
(*                                                                         *)
(* Scores are floats with at most one decimal in the source; they are      *)
(* modelled as integers in thousandths (0.2 -> 200), so that every         *)
(* comparison and the halving of a sum are exact.  Strings that the code   *)
(* inspects (the URL, the title, the keywords) are sequences of            *)
(* one-character strings; labels are plain strings.                        *)
(***************************************************************************)
EXTENDS Integers, Sequences, FiniteSets, TLC

VARIABLES
    pc,               \* position of the page script: "header", "col1", "col2", "done"
    uploaded_file,    \* st.file_uploader value: NoFile or the pixels of the image
    url_input,        \* st.text_input value: a string (sequence of characters)
    result,           \* local of column 1: label returned by analyze_image
    score,            \* local of column 1: score returned by analyze_image
    img_result,       \* local of column 2: placeholder image label
    img_score,        \* local of column 2: placeholder image score
    headline_result,  \* local of column 2: label returned by analyze_headline
    headline_score,   \* local of column 2: score returned by analyze_headline
    final_score,      \* local of column 2: combined score
    emitted,          \* the elements this run has rendered, in order
    called,           \* the helper routines this run has called, in order
    drawn,            \* the values random.random() returned in this run, in order;
                      \* the process-wide generator is any sequence of values
    earlier           \* history: inputs, draws and output of one earlier run

vars == << pc, uploaded_file, url_input, result, score, img_result, img_score,
           headline_result, headline_score, final_score, emitted, called,
           drawn, earlier >>

locals == << result, score, img_result, img_score, headline_result,
             headline_score, final_score >>

----------------------------------------------------------------------------
(* Bounds of the model *)

\* longest image, in pixels
MaxPixels == 2

----------------------------------------------------------------------------
(* Values *)

\* 1.0 in thousandths
Scale == 10 * 10 * 10

\* no file uploaded (uploaded_file is None)
NoFile == << >>

\* a label or score local that has not been assigned in this run
NoLabel == "None"
NoScore == 0 - 1

\* pixel values the images are built from
Pixels == {127, 129}

Images == UNION { [1..n -> Pixels] : n \in 1..MaxPixels }

\* values random.random() can return, in thousandths of [0, 1)
DrawValues == {500, 501}

\* the text field: empty, a blank, a URL holding a keyword, a URL holding none
URLs == { << >>,
          << " " >>,
          << "a", ".", "i", "o" >>,
          << "s", "e", "c", "r", "e", "t" >> }

----------------------------------------------------------------------------
(* String helpers: str.lower() and the substring test `word in title` *)

UpperCase == << "A", "B", "C", "D", "E", "F", "G", "H", "I", "J", "K", "L", "M",
                "N", "O", "P", "Q", "R", "S", "T", "U", "V", "W", "X", "Y", "Z" >>

LowerCase == << "a", "b", "c", "d", "e", "f", "g", "h", "i", "j", "k", "l", "m",
                "n", "o", "p", "q", "r", "s", "t", "u", "v", "w", "x", "y", "z" >>

LowerChar(c) ==
    IF \E i \in 1..Len(UpperCase) : UpperCase[i] = c
    THEN LowerCase[CHOOSE i \in 1..Len(UpperCase) : UpperCase[i] = c]
    ELSE c

lower(s) == [i \in 1..Len(s) |-> LowerChar(s[i])]

\* Python's `word in text` for strings
Contains(text, word) ==
    \E i \in 0..(Len(text) - Len(word)) :
        \A j \in 1..Len(word) : text[i + j] = word[j]

----------------------------------------------------------------------------
(* The helper routines *)

RECURSIVE SumTo(_, _)
SumTo(image, n) == IF n = 0 THEN 0 ELSE image[n] + SumTo(image, n - 1)

\* variant: the test written `>= 128`
MeanOver128_inclusive(image) == SumTo(image, Len(image)) >= 128 * Len(image)

\* img_array.mean() > 128, without forming the quotient
MeanOver128(image) == SumTo(image, Len(image)) > 128 * Len(image)

\* variant: the draw is taken before the mean is tested
analyze_image_eager(image, rnd) ==
    IF MeanOver128(image)
    THEN [label |-> "Likely AI-Generated", score |-> 200, drew |-> TRUE]
    ELSE IF rnd > 500
         THEN [label |-> "Likely Authentic", score |-> 900, drew |-> TRUE]
         ELSE [label |-> "Analysis Inconclusive", score |-> 600, drew |-> TRUE]

\* variant: the scores of the two random outcomes exchanged
analyze_image_swapped(image, rnd) ==
    IF MeanOver128(image)
    THEN [label |-> "Likely AI-Generated", score |-> 200, drew |-> FALSE]
    ELSE IF rnd > 500
         THEN [label |-> "Likely Authentic", score |-> 600, drew |-> TRUE]
         ELSE [label |-> "Analysis Inconclusive", score |-> 900, drew |-> TRUE]

\* analyze_image(image); rnd is the value random.random() returns if it is
\* called, and `drew` tells whether it was called
analyze_image(image, rnd) ==
    IF MeanOver128(image)
    THEN [label |-> "Likely AI-Generated", score |-> 200, drew |-> FALSE]
    ELSE IF rnd > 500
         THEN [label |-> "Likely Authentic", score |-> 900, drew |-> TRUE]
         ELSE [label |-> "Analysis Inconclusive", score |-> 600, drew |-> TRUE]

clickbait_words ==
    << << "s", "h", "o", "c", "k", "i", "n", "g" >>,
       << "s", "e", "c", "r", "e", "t" >>,
       << "u", "n", "b", "e", "l", "i", "e", "v", "a", "b", "l", "e" >>,
       << "r", "e", "v", "e", "a", "l", "e", "d" >>,
       << "w", "h", "a", "t", " ", "h", "a", "p", "p", "e", "n", "s", " ",
          "n", "e", "x", "t" >> >>

\* "Shocking Secret of AI Revealed by Scientists!"
placeholder_title ==
    << "S", "h", "o", "c", "k", "i", "n", "g", " ",
       "S", "e", "c", "r", "e", "t", " ", "o", "f", " ", "A", "I", " ",
       "R", "e", "v", "e", "a", "l", "e", "d", " ", "b", "y", " ",
       "S", "c", "i", "e", "n", "t", "i", "s", "t", "s", "!" >>

\* variant: the keyword test reads the text it was given
HeadlineTitle_given(url) == url

\* the title the keyword test reads
HeadlineTitle(url) == placeholder_title

analyze_headline(url) ==
    IF \E k \in 1..Len(clickbait_words) :
           Contains(lower(HeadlineTitle(url)), clickbait_words[k])
    THEN [label |-> "High Sensationalism Detected", score |-> 300]
    ELSE [label |-> "Low Sensationalism", score |-> 800]

----------------------------------------------------------------------------
(* Rendering *)

\* one rendered element: the st.* call, the pieces of its text, and the
\* digits of the score it prints (empty when it prints none)
Element(kind, text, digits) == [kind |-> kind, text |-> text, score |-> digits]

\* f"{x:.2f}" as the digits << units, tenths, hundredths >>
Format2f(x) ==
    LET h == (x + 5) \div 10
    IN  << h \div 100, (h \div 10) % 10, h % 10 >>

\* variant: the first test written `<= 0.5`
ImageBanner_inclusive(label, s) ==
    LET text == << "**Result:** ", label, " (Credibility Score: ", ")" >>
    IN  IF s <= 500 THEN Element("error", text, Format2f(s))
        ELSE IF s < 700 THEN Element("warning", text, Format2f(s))
        ELSE Element("success", text, Format2f(s))

\* column 1: the if / elif / else chain on score and the banner it prints
ImageBanner(label, s) ==
    LET text == << "**Result:** ", label, " (Credibility Score: ", ")" >>
    IN  IF s < 500 THEN Element("error", text, Format2f(s))
        ELSE IF s < 700 THEN Element("warning", text, Format2f(s))
        ELSE Element("success", text, Format2f(s))

\* column 2: the if / elif / else chain on final_score and the banner it prints
CombinedBanner(s) ==
    IF s < 500
    THEN Element("error", << "**Overall Credibility: LOW** (Score: ", ")" >>, Format2f(s))
    ELSE IF s < 700
    THEN Element("warning", << "**Overall Credibility: MEDIUM** (Score: ", ")" >>, Format2f(s))
    ELSE Element("success", << "**Overall Credibility: HIGH** (Score: ", ")" >>, Format2f(s))

\* variant: the sum is not halved
CombinedScore_sum(a, b) == a + b

\* final_score = (img_score + headline_score) / 2; every score the code forms
\* is a multiple of 0.1, so the sum in thousandths is even and \div is exact
CombinedScore(a, b) == (a + b) \div 2

\* variant: the placeholder score mistyped
PlaceholderImage_low == [label |-> "Likely Authentic", score |-> 200]

\* variant: column 2 picks up the result of column 1 when there is one
PlaceholderImage_leak ==
    IF score # NoScore
    THEN [label |-> result, score |-> score]
    ELSE [label |-> "Likely Authentic", score |-> 900]

\* the placeholder image result of the URL column
PlaceholderImage == [label |-> "Likely Authentic", score |-> 900]

TitleBlock == Element("markdown", << "Media Credibility Hub" >>, << >>)

Col1Intro ==
    << Element("header", << "1. Analyze an Image" >>, << >>),
       Element("markdown", << "Upload a photo to check if it's authentic or AI-generated." >>, << >>),
       Element("file_uploader", << "Choose an image..." >>, << >>) >>

Col2Intro ==
    << Element("header", << "2. Analyze a News URL" >>, << >>),
       Element("markdown", << "Paste a link to a news article to check its headline for sensationalism." >>, << >>),
       Element("text_input", << "Enter URL here..." >>, << >>) >>

InfoNotice ==
    Element("info", << "URL analysis in this demo uses a placeholder image and title." >>, << >>)

Summary(img, headline) ==
    Element("write", << "- **Image:** ", img, "- **Headline:** ", headline >>, << >>)

UploadedImage == Element("image", << "Uploaded Image" >>, << >>)

PlaceholderPicture == Element("image", << "Image from URL (Placeholder)" >>, << >>)

Spacer == Element("write", << "" >>, << >>)

Divider == Element("write", << "---" >>, << >>)

CombinedHeading == Element("subheader", << "Combined Analysis:" >>, << >>)

----------------------------------------------------------------------------
(* The page script *)

Init ==
    /\ pc = "header"
    /\ uploaded_file = NoFile
    /\ url_input = << >>
    /\ result = NoLabel
    /\ score = NoScore
    /\ img_result = NoLabel
    /\ img_score = NoScore
    /\ headline_result = NoLabel
    /\ headline_score = NoScore
    /\ final_score = NoScore
    /\ emitted = << >>
    /\ called = << >>
    /\ drawn = << >>
    /\ earlier = [ran |-> FALSE, file |-> NoFile, url |-> << >>,
                  drawn |-> << >>, emitted |-> << >>]

\* page configuration, the title block and the two columns
Header ==
    /\ pc = "header"
    /\ emitted' = Append(emitted, TitleBlock)
    /\ pc' = "col1"
    /\ UNCHANGED << uploaded_file, url_input, locals, called, drawn, earlier >>

\* `if uploaded_file is not None`
HasFile(file) == file # NoFile

\* variant: the test written `is not None`, which the empty string passes
HasUrl_any(url) == TRUE

\* `if url_input`: a string is true when it is not empty
HasUrl(url) == url # << >>

\* what column 1 renders for an uploaded file, in order
ImageOutput(res) ==
    << UploadedImage, Spacer, ImageBanner(res.label, res.score) >>

\* variant: the summary written before the combined banner
UrlOutput_swapped(final, head) ==
    << InfoNotice, PlaceholderPicture, Spacer, Divider, CombinedHeading,
       Summary(PlaceholderImage.label, head.label), CombinedBanner(final) >>

\* what column 2 renders for a URL, in order
UrlOutput(final, head) ==
    << InfoNotice, PlaceholderPicture, Spacer, Divider, CombinedHeading,
       CombinedBanner(final), Summary(PlaceholderImage.label, head.label) >>

\* column 1, with res standing for what the call of analyze_image returns and
\* rnd for the value it drew when res.drew
ImageColumn(res, rnd) ==
    /\ pc = "col1"
    /\ IF HasFile(uploaded_file)
       THEN /\ result' = res.label
            /\ score' = res.score
            /\ called' = Append(called, "analyze_image")
            /\ drawn' = IF res.drew THEN Append(drawn, rnd) ELSE drawn
            /\ emitted' = emitted \o Col1Intro \o ImageOutput(res)
       ELSE /\ emitted' = emitted \o Col1Intro
            /\ UNCHANGED << result, score, called, drawn >>
    /\ pc' = "col2"
    /\ UNCHANGED << uploaded_file, url_input, img_result, img_score,
                    headline_result, headline_score, final_score, earlier >>

\* column 2, with head standing for what the call of analyze_headline returns
UrlColumn(head) ==
    /\ pc = "col2"
    /\ IF HasUrl(url_input)
       THEN LET final == CombinedScore(PlaceholderImage.score, head.score)
            IN  /\ img_result' = PlaceholderImage.label
                /\ img_score' = PlaceholderImage.score
                /\ headline_result' = head.label
                /\ headline_score' = head.score
                /\ final_score' = final
                /\ called' = Append(called, "analyze_headline")
                /\ emitted' = emitted \o Col2Intro \o UrlOutput(final, head)
       ELSE /\ emitted' = emitted \o Col2Intro
            /\ UNCHANGED << img_result, img_score, headline_result,
                            headline_score, final_score, called >>
    /\ pc' = "done"
    /\ UNCHANGED << uploaded_file, url_input, result, score, drawn, earlier >>

Col1 == \E rnd \in DrawValues : ImageColumn(analyze_image(uploaded_file, rnd), rnd)

Col2 == UrlColumn(analyze_headline(url_input))

\* what the finished run was given and what it rendered
ThisRun == [ran |-> TRUE, file |-> uploaded_file, url |-> url_input,
            drawn |-> drawn, emitted |-> emitted]

\* the framework re-executes the script with the widgets' new values: a fresh
\* namespace and an empty page
Restart(file, url, remembered) ==
    /\ pc = "done"
    /\ uploaded_file' = file
    /\ url_input' = url
    /\ result' = NoLabel
    /\ score' = NoScore
    /\ img_result' = NoLabel
    /\ img_score' = NoScore
    /\ headline_result' = NoLabel
    /\ headline_score' = NoScore
    /\ final_score' = NoScore
    /\ emitted' = << >>
    /\ called' = << >>
    /\ drawn' = << >>
    /\ pc' = "header"
    /\ earlier' = remembered

Rerun ==
    \E file \in Images \cup {NoFile}, url \in URLs, keep \in BOOLEAN :
        Restart(file, url, IF keep /\ earlier.ran THEN earlier ELSE ThisRun)

Next == Header \/ Col1 \/ Col2 \/ Rerun

Spec == Init /\ [][Next]_vars

----------------------------------------------------------------------------
(* The banner chains on their own: the same page script with the two helper  *)
(* routines replaced by arbitrary label/score pairs, so that the chains are   *)
(* exercised on every band and on both thresholds.                            *)

\* scores around the thresholds; all even, so that a halved sum is exact
AnyScores == {0, 98, 100, 102, 498, 500, 502, 698, 700, 702, 900, Scale}

ImageLabels == {"Likely AI-Generated", "Likely Authentic", "Analysis Inconclusive"}

HeadlineLabels == {"High Sensationalism Detected", "Low Sensationalism"}

Col1Any ==
    \E l \in ImageLabels, s \in AnyScores :
        ImageColumn([label |-> l, score |-> s, drew |-> FALSE], 0)

Col2Any ==
    \E l \in HeadlineLabels, s \in AnyScores :
        UrlColumn([label |-> l, score |-> s])

RerunPlain ==
    \E file \in Images \cup {NoFile}, url \in URLs : Restart(file, url, earlier)

NextBands == Header \/ Col1Any \/ Col2Any \/ RerunPlain

SpecBands == Init /\ [][NextBands]_vars

----------------------------------------------------------------------------
(* Reading the rendered page *)

BannerKinds == {"error", "warning", "success"}

IsImageBanner(e) == e.kind \in BannerKinds /\ e.text[1] = "**Result:** "

IsCombinedBanner(e) ==
    /\ e.kind \in BannerKinds
    /\ e.text[1] \in { "**Overall Credibility: LOW** (Score: ",
                       "**Overall Credibility: MEDIUM** (Score: ",
                       "**Overall Credibility: HIGH** (Score: " }

ImageBanners(page) == SelectSeq(page, IsImageBanner)

CombinedBanners(page) == SelectSeq(page, IsCombinedBanner)

IsInfo(e) == e.kind = "info"

IsSummary(e) == e.kind = "write" /\ e.text[1] = "- **Image:** "

Positions(page, Test(_)) == { i \in 1..Len(page) : Test(page[i]) }

Calls(name) == Cardinality({ i \in 1..Len(called) : called[i] = name })

\* the part of a finished page that column 1 / column 2 rendered
Col2Start(page) == CHOOSE i \in 1..Len(page) : page[i] = Col2Intro[1]
ImagePart(page) == SubSeq(page, 1, Col2Start(page) - 1)
UrlPart(page) == SubSeq(page, Col2Start(page), Len(page))

MeanAtMost128(image) == SumTo(image, Len(image)) <= 128 * Len(image)

\* column 1 has run / column 2 has run
AfterCol1 == pc \in {"col2", "done"}
AfterCol2 == pc = "done"

InUnit(x) == 0 <= x /\ x <= Scale

----------------------------------------------------------------------------
(* C1: every score the program produces lies in [0, 1]: the score returned  *)
(* by analyze_image for every image and draw, the score returned by         *)
(* analyze_headline for every URL, and the combined final_score.            *)
C1_ScoresInUnitInterval ==
    /\ (AfterCol1 /\ uploaded_file # NoFile) => InUnit(score)
    /\ (AfterCol2 /\ url_input # << >>) =>
           InUnit(img_score) /\ InUnit(headline_score) /\ InUnit(final_score)
    /\ \A f \in {score, img_score, headline_score, final_score} :
           f = NoScore \/ InUnit(f)

C1_Witness ==
    /\ pc = "done"
    /\ uploaded_file # NoFile
    /\ url_input # << >>
    /\ score = 900
    /\ final_score = 600

(* C2: banner colour follows the documented bands in both columns: a score  *)
(* below 0.5 gives the red error banner, a score from 0.5 up to but not     *)
(* including 0.7 the yellow warning banner, a score of 0.7 or more the      *)
(* green success banner; exactly 0.5 is yellow, exactly 0.7 is green; and   *)
(* every analysis that runs emits exactly one banner.                       *)
C2_InBand(kind, s) ==
    /\ (kind = "error") <=> (s < 500)
    /\ (kind = "warning") <=> (500 <= s /\ s < 700)
    /\ (kind = "success") <=> (s >= 700)
    /\ (s = 500) => (kind = "warning")
    /\ (s = 700) => (kind = "success")

C2_BannerBands ==
    /\ (AfterCol1 /\ uploaded_file # NoFile) =>
           /\ Len(ImageBanners(emitted)) = 1
           /\ C2_InBand(ImageBanners(emitted)[1].kind, score)
    /\ (AfterCol2 /\ url_input # << >>) =>
           /\ Len(CombinedBanners(emitted)) = 1
           /\ C2_InBand(CombinedBanners(emitted)[1].kind, final_score)

C2_Witness ==
    /\ pc = "done"
    /\ score = 500
    /\ ImageBanners(emitted)[1].kind = "warning"
    /\ final_score = 700
    /\ CombinedBanners(emitted)[1].kind = "success"

(* C3: the headline result never depends on the URL: any two URLs give the  *)
(* same label/score pair, that pair is ("High Sensationalism Detected",     *)
(* 0.3), and the "Low Sensationalism" branch is never taken.                *)
C3_HeadlineIgnoresUrl ==
    /\ (AfterCol2 /\ url_input # << >>) =>
           /\ headline_result = "High Sensationalism Detected"
           /\ headline_score = 300
    /\ (earlier.ran /\ earlier.url # << >> /\ AfterCol2 /\ url_input # << >>) =>
           /\ SelectSeq(earlier.emitted, IsSummary) = SelectSeq(emitted, IsSummary)
           /\ CombinedBanners(earlier.emitted) = CombinedBanners(emitted)
    /\ headline_result # "Low Sensationalism"
    /\ \A i \in 1..Len(emitted) :
           IsSummary(emitted[i]) => emitted[i].text[4] = "High Sensationalism Detected"

C3_Witness ==
    /\ pc = "done"
    /\ url_input = << "a", ".", "i", "o" >>
    /\ headline_result = "High Sensationalism Detected"
    /\ earlier.ran
    /\ earlier.url = << "s", "e", "c", "r", "e", "t" >>
    /\ SelectSeq(earlier.emitted, IsSummary) = SelectSeq(emitted, IsSummary)

(* C4: image scoring is a pixel-mean threshold plus a coin flip: a mean     *)
(* strictly above 128 gives ("Likely AI-Generated", 0.2) with no draw; a    *)
(* mean of 128 or less takes one draw and gives ("Likely Authentic", 0.9)   *)
(* when the draw is above 0.5 and ("Analysis Inconclusive", 0.6) otherwise. *)
(* That both outcomes occur for the same image is what C4_Witness reaches.  *)
C4_ImageScoring ==
    (AfterCol1 /\ uploaded_file # NoFile) =>
        LET n == Len(uploaded_file)
            total == SumTo(uploaded_file, n)
        IN  IF total > 128 * n
            THEN result = "Likely AI-Generated" /\ score = 200 /\ drawn = << >>
            ELSE /\ Len(drawn) = 1
                 /\ drawn[1] > 500 => (result = "Likely Authentic" /\ score = 900)
                 /\ drawn[1] <= 500 => (result = "Analysis Inconclusive" /\ score = 600)

C4_Witness ==
    /\ pc = "done"
    /\ uploaded_file = << 127, 129 >>
    /\ result = "Analysis Inconclusive"
    /\ earlier.ran
    /\ earlier.file = uploaded_file
    /\ earlier.drawn = << 501 >>
    /\ ImageBanners(earlier.emitted)[1].text[2] = "Likely Authentic"

(* C5, as stated: both scoring routines are pure and stateless: called      *)
(* twice with the same input they return the same label/score pair (so a    *)
(* later call cannot tell that an earlier one took place).                  *)
C5_PureAsStated ==
    /\ (earlier.ran /\ AfterCol1 /\ uploaded_file # NoFile
            /\ earlier.file = uploaded_file) =>
           ImageBanners(earlier.emitted) = ImageBanners(emitted)
    /\ (earlier.ran /\ AfterCol2 /\ url_input # << >>
            /\ earlier.url = url_input) =>
           UrlPart(earlier.emitted) = UrlPart(emitted)

(* C5, amended: analyze_headline is pure and stateless.  analyze_image is   *)
(* pure only for an image whose mean is above 128; for a mean of 128 or     *)
(* less it takes exactly one value from the process-wide random generator,  *)
(* which advances the generator, and two calls on the same image return     *)
(* the same pair when they draw the same value.  Neither routine has any    *)
(* other effect.                                                            *)
C5_SameDrawSameResult ==
    /\ (earlier.ran /\ AfterCol1 /\ uploaded_file # NoFile
            /\ earlier.file = uploaded_file /\ earlier.drawn = drawn) =>
           ImageBanners(earlier.emitted) = ImageBanners(emitted)
    /\ (earlier.ran /\ AfterCol1 /\ uploaded_file # NoFile
            /\ earlier.file = uploaded_file /\ ~MeanAtMost128(uploaded_file)) =>
           ImageBanners(earlier.emitted) = ImageBanners(emitted)
    /\ (earlier.ran /\ AfterCol2 /\ url_input # << >>
            /\ earlier.url = url_input) =>
           UrlPart(earlier.emitted) = UrlPart(emitted)

C5_Step ==
    /\ C5_SameDrawSameResult'
    /\ (pc = "col2") => (drawn' = drawn)
    /\ (pc = "col1") =>
           IF uploaded_file # NoFile /\ MeanAtMost128(uploaded_file)
           THEN \E rnd \in DrawValues : drawn' = Append(drawn, rnd)
           ELSE drawn' = drawn
    /\ (pc \in {"col1", "col2"}) =>
           UNCHANGED << uploaded_file, url_input, earlier >>

C5_PureExceptForTheDraw == [][C5_Step]_vars

C5_Witness ==
    /\ pc = "done"
    /\ earlier.ran
    /\ uploaded_file = << 127 >>
    /\ earlier.file = uploaded_file
    /\ drawn = << 500 >>
    /\ earlier.drawn = drawn
    /\ url_input # << >>

(* C6: absent input skips the analysis: with no file, analyze_image is not  *)
(* called and no image banner is emitted; with an empty URL,                *)
(* analyze_headline is not called and no info notice, combined banner or    *)
(* summary is emitted.  The absence of one input never suppresses the       *)
(* analysis of the other, and the run always goes on to its end.            *)
C6_AbsentInputSkips ==
    /\ (AfterCol1 /\ uploaded_file = NoFile) =>
           /\ Calls("analyze_image") = 0
           /\ Positions(emitted, IsImageBanner) = {}
           /\ result = NoLabel /\ score = NoScore
    /\ (AfterCol2 /\ url_input = << >>) =>
           /\ Calls("analyze_headline") = 0
           /\ Positions(emitted, IsInfo) = {}
           /\ Positions(emitted, IsCombinedBanner) = {}
           /\ Positions(emitted, IsSummary) = {}
           /\ final_score = NoScore
    /\ (AfterCol2 /\ uploaded_file # NoFile) =>
           /\ Calls("analyze_image") = 1
           /\ Cardinality(Positions(emitted, IsImageBanner)) = 1
    /\ (AfterCol2 /\ url_input # << >>) =>
           /\ Calls("analyze_headline") = 1
           /\ Cardinality(Positions(emitted, IsInfo)) = 1
           /\ Cardinality(Positions(emitted, IsCombinedBanner)) = 1
           /\ Cardinality(Positions(emitted, IsSummary)) = 1
    /\ (pc # "done") => ENABLED (Header \/ Col1 \/ Col2)

C6_Witness ==
    /\ pc = "done"
    /\ uploaded_file = NoFile
    /\ url_input # << >>
    /\ Calls("analyze_headline") = 1
    /\ Calls("analyze_image") = 0

(* C7: labels come from a small fixed set and each is always paired with    *)
(* the same score; so in column 1 "Likely AI-Generated" is always red,      *)
(* "Analysis Inconclusive" always yellow and "Likely Authentic" always      *)
(* green.                                                                   *)
C7_ImagePairs ==
    { << "Likely AI-Generated", 200 >>, << "Likely Authentic", 900 >>,
      << "Analysis Inconclusive", 600 >> }

C7_HeadlinePairs ==
    { << "High Sensationalism Detected", 300 >>, << "Low Sensationalism", 800 >> }

C7_FixedLabelScorePairs ==
    /\ << result, score >> \in C7_ImagePairs \cup { << NoLabel, NoScore >> }
    /\ << headline_result, headline_score >>
           \in C7_HeadlinePairs \cup { << NoLabel, NoScore >> }
    /\ \A i \in Positions(emitted, IsImageBanner) :
           LET b == emitted[i]
           IN  /\ b.text[2] \in ImageLabels
               /\ (b.text[2] = "Likely AI-Generated") => (b.kind = "error")
               /\ (b.text[2] = "Analysis Inconclusive") => (b.kind = "warning")
               /\ (b.text[2] = "Likely Authentic") => (b.kind = "success")

C7_Witness ==
    /\ AfterCol1
    /\ result = "Analysis Inconclusive"
    /\ score = 600
    /\ ImageBanners(emitted)[1].kind = "warning"

(* C8: for every non-empty URL the combined analysis has one outcome: the   *)
(* placeholder image part ("Likely Authentic", 0.9), the headline part      *)
(* ("High Sensationalism Detected", 0.3), the combined score 0.6 and the    *)
(* yellow MEDIUM banner; the LOW and HIGH banners are never shown.          *)
C8_CombinedAlwaysMedium ==
    /\ (AfterCol2 /\ url_input # << >>) =>
           /\ img_result = "Likely Authentic" /\ img_score = 900
           /\ headline_result = "High Sensationalism Detected"
           /\ headline_score = 300
           /\ final_score = 600
           /\ CombinedBanners(emitted) =
                  << [kind |-> "warning",
                      text |-> << "**Overall Credibility: MEDIUM** (Score: ", ")" >>,
                      score |-> << 0, 6, 0 >>] >>
    /\ \A i \in Positions(emitted, IsCombinedBanner) :
           emitted[i].kind = "warning"

C8_Witness ==
    /\ pc = "done"
    /\ url_input = << " " >>
    /\ final_score = 600
    /\ Len(CombinedBanners(emitted)) = 1

(* C9: no data flows between the two analyses: for the same URL, column 2   *)
(* renders the same whether or not an image was uploaded and whatever its   *)
(* pixels and draw, and it never calls analyze_image; for the same image    *)
(* and draw, column 1 renders the same whether or not a URL was entered     *)
(* and whatever its text.                                                   *)
C9_NoFlowBetweenColumns ==
    /\ (earlier.ran /\ AfterCol2 /\ earlier.url = url_input) =>
           UrlPart(earlier.emitted) = UrlPart(emitted)
    /\ (earlier.ran /\ AfterCol2 /\ earlier.file = uploaded_file
            /\ earlier.drawn = drawn) =>
           ImagePart(earlier.emitted) = ImagePart(emitted)
    /\ Calls("analyze_image") = (IF AfterCol1 /\ uploaded_file # NoFile THEN 1 ELSE 0)
    /\ (AfterCol2 /\ url_input # << >>) =>
           img_result = "Likely Authentic" /\ img_score = 900
    /\ (AfterCol2 /\ uploaded_file # NoFile) =>
           /\ result \in ImageLabels
           /\ (result = "Likely AI-Generated") <=> ~MeanAtMost128(uploaded_file)

C9_Witness ==
    /\ pc = "done"
    /\ earlier.ran
    /\ earlier.url = url_input
    /\ url_input # << >>
    /\ earlier.file = NoFile
    /\ uploaded_file = << 129 >>
    /\ UrlPart(earlier.emitted) = UrlPart(emitted)

(* C10: each run is a fresh, strictly sequential pass: with both inputs     *)
(* present the image banner comes before the info notice, then the          *)
(* combined banner, then the summary; a run emits at most one image banner  *)
(* and at most one combined banner; and what a run emits depends only on    *)
(* its own inputs and its own draw, not on any earlier run.                 *)
C10_FreshSequentialRun ==
    /\ (pc = "done" /\ uploaded_file # NoFile /\ url_input # << >>) =>
           /\ Cardinality(Positions(emitted, IsImageBanner)) = 1
           /\ Cardinality(Positions(emitted, IsInfo)) = 1
           /\ Cardinality(Positions(emitted, IsCombinedBanner)) = 1
           /\ Cardinality(Positions(emitted, IsSummary)) = 1
           /\ \A a \in Positions(emitted, IsImageBanner), b \in Positions(emitted, IsInfo) :
                  a < b
           /\ \A b \in Positions(emitted, IsInfo), c \in Positions(emitted, IsCombinedBanner) :
                  b < c
           /\ \A c \in Positions(emitted, IsCombinedBanner), d \in Positions(emitted, IsSummary) :
                  c < d
    /\ Cardinality(Positions(emitted, IsImageBanner)) <= 1
    /\ Cardinality(Positions(emitted, IsCombinedBanner)) <= 1
    /\ (pc = "header") =>
           /\ emitted = << >> /\ called = << >> /\ drawn = << >>
           /\ result = NoLabel /\ score = NoScore /\ final_score = NoScore
           /\ headline_result = NoLabel /\ img_result = NoLabel
    /\ (earlier.ran /\ pc = "done" /\ earlier.file = uploaded_file
            /\ earlier.url = url_input /\ earlier.drawn = drawn) =>
           earlier.emitted = emitted

C10_Witness ==
    /\ pc = "done"
    /\ earlier.ran
    /\ uploaded_file = << 129, 129 >>
    /\ url_input = << "s", "e", "c", "r", "e", "t" >>
    /\ earlier.file = << 127 >>
    /\ earlier.url = << >>
    /\ Len(emitted) = 17

====
